---- MODULE Spec2Model ----
(***************************************************************************)
(* Model of sketch_dec17a.ino: a spirometer that conditions an analog      *)
(* pressure sample, converts it to a flow rate, segments the flow into     *)
(* breaths and integrates the tidal volume.                                *)
(*                                                                         *)
(* Number representation: the sketch computes in float, and so does the    *)
(* model. sensorOffset, filteredValue, currentVol, peakFlow, previousFlow  *)
(* and the float locals of loop() hold IEEE 754 binary32 numbers, each     *)
(* kept as the integer its bit pattern spells; every operation rounds to   *)
(* nearest even, and comparisons treat NaN as unordered. double is the     *)
(* same 32-bit type as float, as on the AVR boards the sketch is written   *)
(* for. unsigned long values (millis) are 32 bits wide, kept as            *)
(* <<high, low>> pairs of 16-bit halves so that every intermediate fits    *)
(* TLC's integers.                                                         *)
(***************************************************************************)
EXTENDS Integers, Naturals, Sequences, FiniteSets, TLC

VARIABLES
    clock,            \* the value millis() returns now
    total,            \* the sum of the 50 samples setup() read (line 60)
    sensorOffset,     \* line 16
    filteredValue,    \* line 27
    previousMillis,   \* line 31
    lastDisplayTime,  \* line 32
    breathStopTimer,  \* line 33
    currentVol,       \* line 35
    peakFlow,         \* line 36
    previousFlow,     \* line 37
    isBreathing,      \* line 38
    pc,               \* "loop": between two loop() calls; "results": blocked at line 201;
                      \* "probe", "probed": before and after FlowModel is applied alone
    rawValue,         \* locals of the latest loop() call
    dt,
    adjustedRaw,      \* rawValue - sensorOffset before the deadzone (line 81)
    adjustedValue,    \* after the deadzone (line 88)
    prevFiltered,     \* filteredValue on entry of the latest loop() call
    smoothed,         \* filteredValue as assigned at line 91
    pressurePa,
    flowRate,
    emitted,          \* number of calls of showResultsWindow
    started,          \* number of changes of isBreathing from false to true
    shown,            \* <<peakFlow, currentVol>> printed by the latest showResultsWindow
    \* History of the breath in progress, in true ms (0 while Idle):
    sinceStart,       \* since line 75 of the latest tick with flowRate > START_THRESHOLD
    sinceCutoff,      \* since line 75 of the latest tick with flowRate > CUTOFF_THRESHOLD
    sinceDrop,        \* since line 75 of the first tick of the current run of ticks <= CUTOFF_THRESHOLD
    sinceReset,       \* since the millis() read that last set breathStopTimer
    checkAge,         \* sinceReset as of the millis() read at line 124 of the latest tick
    ticks,            \* number of loop() calls so far
    idleTicks,        \* number of loop() calls spent Idle since the last breath
    loudUsed,         \* number of samples so far that escaped the deadzone
    deviations,       \* number of loud samples, long gaps and lagging calls so far
    \* Record of the latest step:
    lastStep,         \* "setup", "tick" (a loop() call up to line 125 or 140) or "ack"
    lagIn,            \* the lag of the latest step
    entryVol,         \* currentVol on entry of the latest loop() call
    entryPeak,        \* peakFlow on entry of the latest loop() call
    entryTimer,       \* breathStopTimer on entry of the latest loop() call
    entryBreathing,   \* isBreathing on entry of the latest loop() call
    entryFlow,        \* previousFlow on entry of the latest loop() call
    sinceBaseline,    \* true ms since the millis() read that last set previousMillis
    trueDt            \* true ms between that read and line 75 of the latest loop() call

vars == <<clock, total, sensorOffset, filteredValue, previousMillis, lastDisplayTime,
          breathStopTimer, currentVol, peakFlow, previousFlow, isBreathing, pc,
          rawValue, dt, adjustedRaw, adjustedValue, prevFiltered, smoothed,
          pressurePa, flowRate, emitted, started, shown,
          sinceStart, sinceCutoff, sinceDrop, sinceReset, checkAge,
          ticks, idleTicks, loudUsed, deviations,
          lastStep, lagIn, entryVol, entryPeak, entryTimer, entryBreathing, entryFlow,
          sinceBaseline, trueDt>>

----
\* Bounds of the exploration

MaxTicks == 36
MaxIdle == 2
MaxDeviations == 2

ShortGap == 50
LongGap == 400
GapSet == {ShortGap, LongGap}
\* <<75->105, 105->124, 124->137, 137->139>>: ms the clock advances between the reads
NoLag == <<0, 0, 0, 0>>
LagSet == {NoLag, <<1, 1, 0, 30>>}
\* sum of the 50 calibration samples: a baseline of 500 counts
TotalSet == {25000}
AckWaitMax == 2000
AckWaitSet == {0, AckWaitMax}
ProbeSpan == 300

----
\* unsigned long arithmetic

Half == 65536               \* 2^16

MillisOf(n) == <<n \div Half, n % Half>>

MillisAdd(t, d) ==
    LET s == t[2] + d
    IN  <<(t[1] + (s \div Half)) % Half, s % Half>>

\* a - b modulo 2^32
MillisDiff(a, b) ==
    LET borrow == IF a[2] < b[2] THEN 1 ELSE 0
        lo == a[2] - b[2] + borrow * Half
        hi == (a[1] - b[1] - borrow + 2 * Half) % Half
    IN  hi * Half + lo

----
\* IEEE 754 binary32 arithmetic, round to nearest even. A number is kept as the
\* integer its 32 bits spell (sign bit clear), a negative number as minus that
\* integer, so the order of two encodings is the order of the two numbers.

Hidden == 8388608           \* 2^23: the hidden bit of a 24-bit significand
Limb == 16777216            \* 2^24
NaN == 2143289344           \* 0x7FC00000: what sqrt returns for a negative argument

IsNaN(x) == x = NaN

Abs(x) == IF x < 0 THEN -x ELSE x

Max(a, b) == IF a >= b THEN a ELSE b

Min(a, b) == IF a <= b THEN a ELSE b

\* number of bits of n, 0 <= n < 2^31
BitLen(n) ==
    LET a == IF n >= 65536 THEN 16 ELSE 0
        n1 == n \div 2^a
        b == IF n1 >= 256 THEN 8 ELSE 0
        n2 == n1 \div 2^b
        c == IF n2 >= 16 THEN 4 ELSE 0
        n3 == n2 \div 2^c
        d == IF n3 >= 4 THEN 2 ELSE 0
        n4 == n3 \div 2^d
    IN  a + b + c + d + (IF n4 >= 2 THEN 2 ELSE n4)

\* significand and exponent of a positive encoding: the number is Mant * 2^Exp
Mant(x) == IF x < Hidden THEN x ELSE Hidden + (x % Hidden)

Exp(x) == IF x < Hidden THEN -149 ELSE (x \div Hidden) - 150

\* rest says how the dropped part compares with half a unit of q: -1 below, 0 at,
\* 1 above; a tie goes to the even significand. A carry out of the significand
\* lands in the exponent field.
Encode(q, rest, e) ==
    (e + 149) * Hidden + q + (IF rest > 0 \/ (rest = 0 /\ q % 2 = 1) THEN 1 ELSE 0)

Rest(rem, half, sticky) ==
    IF rem > half THEN 1
    ELSE IF rem = half THEN (IF sticky THEN 1 ELSE 0)
    ELSE -1

RestWide(remhi, lo, t, sticky) ==
    IF t = 0 THEN Rest(lo, Hidden, sticky)
    ELSE IF remhi > 2^(t - 1) THEN 1
    ELSE IF remhi = 2^(t - 1) THEN (IF lo > 0 \/ sticky THEN 1 ELSE 0)
    ELSE -1

PackShift(hi, lo, e, sticky, len, s) ==
    IF s > len THEN 0
    ELSE IF s <= 0 THEN Encode(lo * 2^(-s), -1, e + s)
    ELSE IF s < 24 THEN
        Encode(hi * 2^(24 - s) + lo \div 2^s, Rest(lo % 2^s, 2^(s - 1), sticky), e + s)
    ELSE Encode(hi \div 2^(s - 24), RestWide(hi % 2^(s - 24), lo, s - 24, sticky), e + s)

PackLen(hi, lo, e, sticky, len) ==
    IF len = 0 THEN 0 ELSE PackShift(hi, lo, e, sticky, len, Max(len - 24, -149 - e))

\* the float nearest to (hi * 2^24 + lo) * 2^e, for 0 <= lo < 2^24 and
\* 0 <= hi < 2^27; sticky says that the exact value is a little above that
Pack(hi, lo, e, sticky) ==
    PackLen(hi, lo, e, sticky, IF hi > 0 THEN 24 + BitLen(hi) ELSE BitLen(lo))

MulLimbs(a1, a0, b1, b0, e) ==
    LET mid == a1 * b0 + a0 * b1
        lo24 == (mid % 4096) * 4096 + a0 * b0
    IN  Pack(a1 * b1 + mid \div 4096 + lo24 \div Limb, lo24 % Limb, e, FALSE)

MulMag(a, b) ==
    IF a = 0 \/ b = 0 THEN 0
    ELSE MulLimbs(Mant(a) \div 4096, Mant(a) % 4096, Mant(b) \div 4096, Mant(b) % 4096,
                  Exp(a) + Exp(b))

\* m * 2^d as <<hi, lo>>, 0 <= d <= 26
ShiftLimbs(m, d) ==
    IF d >= 24 THEN <<m * 2^(d - 24), 0>>
    ELSE <<m \div 2^(24 - d), (m % 2^(24 - d)) * 2^d>>

AddLimbs(w, ms, e) == Pack(w[1] + (w[2] + ms) \div Limb, (w[2] + ms) % Limb, e, FALSE)

SubLimbs(w, ms, e) ==
    IF w[2] >= ms THEN Pack(w[1], w[2] - ms, e, FALSE)
    ELSE Pack(w[1] - 1, w[2] + Limb - ms, e, FALSE)

\* big + small and big - small for encodings big >= small >= 0
AddMag(big, small) ==
    IF small = 0 \/ Exp(big) - Exp(small) > 26 THEN big
    ELSE AddLimbs(ShiftLimbs(Mant(big), Exp(big) - Exp(small)), Mant(small), Exp(small))

SubMag(big, small) ==
    IF small = 0 \/ Exp(big) - Exp(small) > 26 THEN big
    ELSE SubLimbs(ShiftLimbs(Mant(big), Exp(big) - Exp(small)), Mant(small), Exp(small))

\* 7 more bits of the quotient per step
RECURSIVE DivSteps(_, _, _, _, _)
DivSteps(r, mb, q, n, e) ==
    IF n = 0 THEN Pack(q \div Limb, q % Limb, e, r # 0)
    ELSE DivSteps((r * 128) % mb, mb, q * 128 + (r * 128) \div mb, n - 1, e)

DivNorm(ma, mb, e) == DivSteps(ma % mb, mb, ma \div mb, 4, e - 28)

\* significands brought to 24 bits first
DivMag(a, b) ==
    IF a = 0 THEN 0
    ELSE DivNorm(Mant(a) * 2^(24 - BitLen(Mant(a))), Mant(b) * 2^(24 - BitLen(Mant(b))),
                 (Exp(a) - (24 - BitLen(Mant(a)))) - (Exp(b) - (24 - BitLen(Mant(b)))))

\* floor of the square root of m, 0 < m < 2^26, by Newton's iteration from above
RECURSIVE ISqrtIter(_, _)
ISqrtIter(m, x) ==
    IF (x + m \div x) \div 2 >= x THEN x ELSE ISqrtIter(m, (x + m \div x) \div 2)

ISqrt(m) == ISqrtIter(m, 8192)

\* r * 128 + d is the root of 7 more bits or one above it; rem is what is left
\* of the radicand after the square of r * 128 + d
SqrtFix(r, d, rem) ==
    IF rem < 0 THEN <<r * 128 + d - 1, rem + 2 * (r * 128 + d) - 1>>
    ELSE <<r * 128 + d, rem>>

SqrtDigit(r, rem, d) == SqrtFix(r, d, (rem * 128 - 2 * r * d) * 128 - d * d)

\* w = <<root, remainder>> of a radicand; the same of the radicand times 4^7
SqrtExtend(w) == SqrtDigit(w[1], w[2], Min((w[2] * 128) \div (2 * w[1]), 127))

SqrtPack(w, e) == Pack(w[1] \div Limb, w[1] % Limb, e, w[2] # 0)

\* the square root of m * 2^e, 2^23 <= m < 2^25, e even: the root of m * 4^14
\* to 27 bits, and whether anything is left
SqrtEven(m, r, e) == SqrtPack(SqrtExtend(SqrtExtend(<<r, m - r * r>>)), e \div 2 - 14)

SqrtNorm(m, e) ==
    IF e % 2 = 0 THEN SqrtEven(m, ISqrt(m), e) ELSE SqrtEven(2 * m, ISqrt(2 * m), e - 1)

SqrtMag(a) ==
    IF a = 0 THEN 0
    ELSE SqrtNorm(Mant(a) * 2^(24 - BitLen(Mant(a))), Exp(a) - (24 - BitLen(Mant(a))))

Signed(neg, x) == IF neg THEN -x ELSE x

FMul(a, b) ==
    IF IsNaN(a) \/ IsNaN(b) THEN NaN
    ELSE Signed((a < 0) # (b < 0), MulMag(Abs(a), Abs(b)))

FDiv(a, b) ==
    IF IsNaN(a) \/ IsNaN(b) THEN NaN
    ELSE Signed((a < 0) # (b < 0), DivMag(Abs(a), Abs(b)))

FAdd(a, b) ==
    IF IsNaN(a) \/ IsNaN(b) THEN NaN
    ELSE IF (a < 0) = (b < 0) \/ a = 0 \/ b = 0
         THEN Signed(a < 0 \/ b < 0, AddMag(Max(Abs(a), Abs(b)), Min(Abs(a), Abs(b))))
    ELSE IF Abs(a) >= Abs(b) THEN Signed(a < 0, SubMag(Abs(a), Abs(b)))
    ELSE Signed(b < 0, SubMag(Abs(b), Abs(a)))

FSub(a, b) == IF IsNaN(b) THEN NaN ELSE FAdd(a, -b)

FSqrt(a) == IF IsNaN(a) \/ a < 0 THEN NaN ELSE SqrtMag(a)

\* comparisons: every comparison with NaN is false
FLt(a, b) == ~IsNaN(a) /\ ~IsNaN(b) /\ a < b

FGt(a, b) == ~IsNaN(a) /\ ~IsNaN(b) /\ a > b

FLe(a, b) == ~IsNaN(a) /\ ~IsNaN(b) /\ a <= b

FGe(a, b) == ~IsNaN(a) /\ ~IsNaN(b) /\ a >= b

\* conversion of an integer, and the float nearest to num / den
IntToFloat(n) == Signed(n < 0, Pack(Abs(n) \div Limb, Abs(n) % Limb, 0, FALSE))

Float(num, den) == FDiv(IntToFloat(num), IntToFloat(den))

----
\* Program constants

OffsetSamples == 50                     \* samples summed by setup(), lines 62-67
ALPHA == Float(1, 10)                   \* line 28
DEADZONE_THRESHOLD == Float(54, 10)     \* line 86
K_CONSTANT == Float(465, 10)            \* line 19
VOLUME_SCALER == Float(17, 10)          \* line 24
START_THRESHOLD == IntToFloat(2)        \* line 42
CUTOFF_THRESHOLD == IntToFloat(1)       \* line 43
BREATH_TIMEOUT == 1000                  \* ms
DISPLAY_PERIOD == 150                   \* ms
RESET_DELAY == 500                      \* ms
BootMillis == 1750                      \* delay(1500) and 50 times delay(5)
AdcMax == 1023                          \* analogRead returns 0 .. 1023 (lines 80, 94)
One == IntToFloat(1)                    \* 1.0 of line 91
Two == IntToFloat(2)                    \* 2.0 of line 110
Sixty == IntToFloat(60)                 \* 60.0 of line 113
Thousand == IntToFloat(1000)            \* 1000.0 of lines 76, 95 and 99
VoltsPerCount == FDiv(IntToFloat(5), IntToFloat(AdcMax))    \* 5.0 / 1023.0 of line 94
SensorSpan == Float(45, 100)            \* 0.45 of line 95

\* line 76: milliseconds as the float number of seconds
Seconds(ms) == FDiv(IntToFloat(ms), Thousand)

\* line 67: total / 50.0
OffsetOf(sum) == FDiv(IntToFloat(sum), IntToFloat(OffsetSamples))

\* filtered values fed to FlowModel alone: -3 .. 3 counts in steps of 0.01
ProbeSet == {Float(i, 100) : i \in -ProbeSpan .. ProbeSpan}

\* samples 5 and 6 counts above the whole part of the offset: the nearest to the
\* deadzone threshold on either side
RawSet == {total \div OffsetSamples + d : d \in {5, 6}}

\* samples at the whole part of the offset and 5 counts above it
QuietRawSet == {total \div OffsetSamples + d : d \in {0, 5}}

----
\* The signal chain of loop(), lines 80-100

\* lines 80-81: rawValue - sensorOffset
Adjusted(raw, offset) == FSub(IntToFloat(raw), offset)

\* Deadzone that clamps only samples below the baseline
DeadzoneNegativeOnly(adj) == IF FLt(adj, 0) THEN 0 ELSE adj

\* Deadzone that also clamps a sample exactly at the threshold
DeadzoneInclusive(adj) == IF FLe(adj, DEADZONE_THRESHOLD) THEN 0 ELSE adj

\* Deadzone with the threshold written 0.54 instead of 5.4
DeadzoneMisplacedPoint(adj) == IF FLt(adj, Float(54, 100)) THEN 0 ELSE adj

\* lines 86-88: the zero lock
Deadzone(adj) == IF FLt(adj, DEADZONE_THRESHOLD) THEN 0 ELSE adj

\* lines 80-86: whether the zero lock clamps the sample raw
Quiet(raw) == FLt(Adjusted(raw, sensorOffset), DEADZONE_THRESHOLD)

\* How far one call departs from the nominal input: a sample in the deadzone,
\* a short gap and a clock that stands still during the call
Deviation(quiet, gap, lag) ==
    (IF quiet THEN 0 ELSE 1) + (IF gap = LongGap THEN 1 ELSE 0)
        + (IF lag # NoLag THEN 1 ELSE 0)

\* Smooth with alpha = 0.01
SmoothSlow(prev, adj) ==
    FAdd(FMul(prev, FSub(One, Float(1, 100))), FMul(adj, Float(1, 100)))

\* line 91: filteredValue * (1.0 - alpha) + adjustedValue * alpha
Smooth(prev, adj) == FAdd(FMul(prev, FSub(One, ALPHA)), FMul(adj, ALPHA))

\* line 94: filteredValue * (5.0 / 1023.0)
Voltage(filtered) == FMul(filtered, VoltsPerCount)

\* line 95: (voltage / 0.45) * 1000.0
Pressure(voltage) == FMul(FDiv(voltage, SensorSpan), Thousand)

\* line 99: k_constant * sqrt(pressurePa / 1000.0)
FlowOfPressure(pressure) == FMul(K_CONSTANT, FSqrt(FDiv(pressure, Thousand)))

\* FlowRate with the guard of line 98 left out
FlowRateUnguarded(pressure) == FlowOfPressure(pressure)

\* lines 97-100: the flow is 0 unless the pressure is positive
FlowRate(pressure) == IF FGt(pressure, 0) THEN FlowOfPressure(pressure) ELSE 0

\* StartsBreath with the comparison reversed
StartsBreathInverted(flow) == FLt(flow, START_THRESHOLD)

\* StartsBreath with the threshold of line 109
StartsBreathAboveCutoff(flow) == FGt(flow, CUTOFF_THRESHOLD)

\* line 103: the condition that starts or prolongs a breath
StartsBreath(flow) == FGt(flow, START_THRESHOLD)

\* PeakUpdate that stores every flow above the start threshold
PeakUpdateUnconditional(peak, flow) == flow

\* line 106
PeakUpdate(peak, flow) == IF FGt(flow, peak) THEN flow ELSE peak

\* Integrates without the comparison of the flow
IntegratesWhileBreathing(breathing, flow) == breathing

\* line 109
Integrates(breathing, flow) == breathing /\ FGt(flow, CUTOFF_THRESHOLD)

\* InstantVolume with dt taken as previousMillis - currentMillis
InstantVolumeSwappedDt(flow, prevFlow, dtv) ==
    FMul(FMul(FDiv(FDiv(FAdd(flow, prevFlow), Two), Sixty), -dtv), VOLUME_SCALER)

\* lines 110-116: the scaled trapezoid added to currentVol
InstantVolume(flow, prevFlow, dtv) ==
    FMul(FMul(FDiv(FDiv(FAdd(flow, prevFlow), Two), Sixty), dtv), VOLUME_SCALER)

\* TimedOut with >= in place of >
TimedOutInclusive(now, timer) == MillisDiff(now, timer) >= BREATH_TIMEOUT

\* TimedOut with BREATH_TIMEOUT taken in seconds
TimedOutInSeconds(now, timer) == MillisDiff(now, timer) > BREATH_TIMEOUT \div 1000

\* TimedOut that compares the clock with the sum breathStopTimer + BREATH_TIMEOUT
TimedOutByDeadline(now, timer) ==
    LET deadline == MillisAdd(timer, BREATH_TIMEOUT)
    IN  now[1] > deadline[1] \/ (now[1] = deadline[1] /\ now[2] > deadline[2])

\* line 124
TimedOut(now, timer) == MillisDiff(now, timer) > BREATH_TIMEOUT

\* Finalizes without the confirmation wait
FinalizesWithoutTimeout(breathing, flow, now, timer) ==
    breathing /\ FLe(flow, CUTOFF_THRESHOLD)

\* lines 121-124: the breath is over
Finalizes(breathing, flow, now, timer) ==
    breathing /\ FLe(flow, CUTOFF_THRESHOLD) /\ TimedOut(now, timer)

\* line 137
DisplayDue(now, last) == MillisDiff(now, last) > DISPLAY_PERIOD

\* FinalizeReset that leaves isBreathing set
FinalizeResetKeepsBreathing == <<TRUE, 0, 0, 0, 0>>

\* FinalizeReset that leaves currentVol as it is
FinalizeResetKeepsVolume == <<FALSE, currentVol, 0, 0, 0>>

\* lines 127-131: <<isBreathing, currentVol, peakFlow, filteredValue, previousFlow>>
FinalizeReset == <<FALSE, 0, 0, 0, 0>>

\* TickDt that assumes a fixed period between two calls
TickDtFixedPeriod(currentMillis, previous) == Seconds(ShortGap)

\* line 76: dt is the difference of the read of line 75 and the previous baseline
TickDt(currentMillis, previous) == Seconds(MillisDiff(currentMillis, previous))

\* Shown called after lines 127-131
ShownAfterReset(peak, vol) == <<FinalizeReset[3], FinalizeReset[2]>>

\* lines 182 and 192: the peak flow and the volume showResultsWindow prints; it is
\* called at line 125, before lines 127-131 zero them
Shown(peak, vol) == <<peak, vol>>

\* ResumeBaseline without the assignment of line 208
ResumeBaselineKept(t208, previous) == previous

\* line 208: the baseline of dt is set anew once the button was pressed
ResumeBaseline(t208, previous) == t208

\* Sampling if showResultsWindow did not wait for the button
SamplingWhileShown == pc \in {"loop", "results"}

\* loop() samples only between two calls; line 201 holds it inside
\* showResultsWindow until the button is pressed
Sampling == pc = "loop"

----
\* State after setup(), lines 46-71

\* The state setup() leaves (lines 46-71) once the 50 samples are summed
Booted ==
    /\ sensorOffset = OffsetOf(total)
    /\ clock = MillisOf(BootMillis)
    /\ previousMillis = MillisOf(BootMillis)
    /\ lastDisplayTime = MillisOf(0)
    /\ breathStopTimer = MillisOf(0)
    /\ filteredValue = 0
    /\ currentVol = 0
    /\ peakFlow = 0
    /\ previousFlow = 0
    /\ isBreathing = FALSE
    /\ pc = "loop"
    /\ rawValue = 0
    /\ dt = 0
    /\ adjustedRaw = 0
    /\ adjustedValue = 0
    /\ prevFiltered = 0
    /\ smoothed = 0
    /\ pressurePa = 0
    /\ flowRate = 0
    /\ emitted = 0
    /\ started = 0
    /\ shown = <<0, 0>>
    /\ sinceStart = 0
    /\ sinceCutoff = 0
    /\ sinceDrop = 0
    /\ sinceReset = 0
    /\ checkAge = 0
    /\ ticks = 0
    /\ idleTicks = 0
    /\ loudUsed = 0
    /\ deviations = 0
    /\ lastStep = "setup"
    /\ lagIn = NoLag
    /\ entryVol = 0
    /\ entryPeak = 0
    /\ entryTimer = MillisOf(0)
    /\ entryBreathing = FALSE
    /\ entryFlow = 0
    /\ sinceBaseline = 0
    /\ trueDt = 0

Init ==
    /\ total \in TotalSet
    /\ Booted

----
\* One call of loop(), lines 73-141. raw is the sample analogRead returns, gap the
\* ms since the previous call ended, lag the ms the clock advances between the
\* millis() reads of this call. A call that ends the breath runs up to the wait
\* of showResultsWindow (line 201) and blocks there.

LoopBody(raw, gap, lag) ==
    /\ Sampling
    /\ \E adj0 \in {Adjusted(raw, sensorOffset)} :
       \E filt \in {Smooth(filteredValue, Deadzone(adj0))} :
       \E press \in {Pressure(Voltage(filt))} :
       \E flow \in {FlowRate(press)} :
       \E dtv \in {TickDt(MillisAdd(clock, gap), previousMillis)} :
       LET currentMillis == MillisAdd(clock, gap)
           adj == Deadzone(adj0)
           t105 == MillisAdd(currentMillis, lag[1])
           begins == StartsBreath(flow)
           breathing == isBreathing \/ begins
           timer == IF begins THEN t105 ELSE breathStopTimer
           peak == IF begins THEN PeakUpdate(peakFlow, flow) ELSE peakFlow
           vol == IF Integrates(breathing, flow)
                  THEN FAdd(currentVol, InstantVolume(flow, previousFlow, dtv))
                  ELSE currentVol
           t124 == MillisAdd(t105, lag[2])
           ends == Finalizes(breathing, flow, t124, timer)
           t137 == MillisAdd(t124, lag[3])
           draws == DisplayDue(t137, lastDisplayTime)
           t139 == MillisAdd(t137, lag[4])
           inCall == IF ends THEN lag[1] + lag[2]
                     ELSE lag[1] + lag[2] + lag[3] + (IF draws THEN lag[4] ELSE 0)
           elapsed == gap + inCall
       IN  /\ rawValue' = raw
           /\ dt' = dtv
           /\ adjustedRaw' = adj0
           /\ adjustedValue' = adj
           /\ prevFiltered' = filteredValue
           /\ smoothed' = filt
           /\ pressurePa' = press
           /\ flowRate' = flow
           /\ previousMillis' = currentMillis
           /\ filteredValue' = filt
           /\ isBreathing' = breathing
           /\ breathStopTimer' = timer
           /\ peakFlow' = peak
           /\ currentVol' = vol
           /\ previousFlow' = flow
           /\ started' = IF ~isBreathing /\ breathing THEN started + 1 ELSE started
           /\ IF ends
              THEN /\ pc' = "results"
                   /\ emitted' = emitted + 1
                   /\ shown' = Shown(peak, vol)
                   /\ clock' = t124
                   /\ UNCHANGED lastDisplayTime
              ELSE /\ pc' = "loop"
                   /\ UNCHANGED <<emitted, shown>>
                   /\ clock' = IF draws THEN t139 ELSE t137
                   /\ lastDisplayTime' = IF draws THEN t139 ELSE lastDisplayTime
           /\ sinceStart' = IF ~breathing THEN 0
                            ELSE IF FGt(flow, START_THRESHOLD) THEN inCall
                            ELSE sinceStart + elapsed
           /\ sinceCutoff' = IF ~breathing THEN 0
                             ELSE IF FGt(flow, CUTOFF_THRESHOLD) THEN inCall
                             ELSE sinceCutoff + elapsed
           /\ sinceDrop' = IF ~breathing \/ FGt(flow, CUTOFF_THRESHOLD) THEN 0
                           ELSE IF FGt(flowRate, CUTOFF_THRESHOLD) THEN inCall
                           ELSE sinceDrop + elapsed
           /\ sinceReset' = IF ~breathing THEN 0
                            ELSE IF begins THEN inCall - lag[1]
                            ELSE sinceReset + elapsed
           /\ checkAge' = IF ~breathing THEN 0
                          ELSE IF begins THEN lag[2]
                          ELSE sinceReset + gap + lag[1] + lag[2]
           /\ ticks' = ticks + 1
           /\ idleTicks' = IF breathing THEN 0 ELSE idleTicks + 1
           /\ loudUsed' = IF FLt(adj0, DEADZONE_THRESHOLD) THEN loudUsed ELSE loudUsed + 1
           /\ deviations' = deviations + Deviation(FLt(adj0, DEADZONE_THRESHOLD), gap, lag)
           /\ lastStep' = "tick"
           /\ lagIn' = lag
           /\ entryVol' = currentVol
           /\ entryPeak' = peakFlow
           /\ entryTimer' = breathStopTimer
           /\ entryBreathing' = isBreathing
           /\ entryFlow' = previousFlow
           /\ sinceBaseline' = inCall
           /\ trueDt' = sinceBaseline + gap
           /\ UNCHANGED <<total, sensorOffset>>

\* A loop() call within the bounds of the exploration; quiet is Quiet(raw)
Tick(raw, quiet, gap, lag) ==
    /\ ticks < MaxTicks
    /\ deviations + Deviation(quiet, gap, lag) <= MaxDeviations
    /\ LoopBody(raw, gap, lag)

\* loop() called by the Arduino core; exploration leaves an Idle device after
\* MaxIdle quiet calls in a row
Loop(raw, quiet, gap, lag) ==
    /\ ~isBreathing /\ quiet => idleTicks < MaxIdle
    /\ Tick(raw, quiet, gap, lag)

\* loop() called with a sample inside the deadzone
QuietLoop(raw, quiet, gap, lag) ==
    /\ quiet
    /\ Tick(raw, quiet, gap, lag)

\* FlowModel on its own: lines 94-100 applied to a filtered value
ProbeFlow ==
    /\ pc = "probe"
    /\ pressurePa' = Pressure(Voltage(filteredValue))
    /\ flowRate' = FlowRate(Pressure(Voltage(filteredValue)))
    /\ pc' = "probed"
    /\ UNCHANGED <<clock, total, sensorOffset, filteredValue, previousMillis, lastDisplayTime,
                   breathStopTimer, currentVol, peakFlow, previousFlow, isBreathing,
                   rawValue, dt, adjustedRaw, adjustedValue, prevFiltered, smoothed,
                   emitted, started, shown, sinceStart, sinceCutoff, sinceDrop,
                   sinceReset, checkAge, ticks, idleTicks, loudUsed, deviations,
                   lastStep, lagIn, entryVol, entryPeak, entryTimer, entryBreathing,
                   entryFlow, sinceBaseline, trueDt>>

\* The button is pressed wait ms after the results appeared: showResultsWindow
\* returns (lines 201-211) and loop() finishes its call (lines 127-140).
AckBody(wait, lag) ==
    /\ pc = "results"
    /\ LET t208 == MillisAdd(clock, wait + RESET_DELAY)
           t137 == MillisAdd(t208, lag[3])
           draws == DisplayDue(t137, lastDisplayTime)
           t139 == MillisAdd(t137, lag[4])
           elapsed == wait + RESET_DELAY + lag[3] + (IF draws THEN lag[4] ELSE 0)
       IN  /\ previousMillis' = ResumeBaseline(t208, previousMillis)
           /\ isBreathing' = FinalizeReset[1]
           /\ currentVol' = FinalizeReset[2]
           /\ peakFlow' = FinalizeReset[3]
           /\ filteredValue' = FinalizeReset[4]
           /\ previousFlow' = FinalizeReset[5]
           /\ clock' = IF draws THEN t139 ELSE t137
           /\ lastDisplayTime' = IF draws THEN t139 ELSE lastDisplayTime
           /\ pc' = "loop"
           /\ sinceStart' = 0
           /\ sinceCutoff' = 0
           /\ sinceDrop' = 0
           /\ sinceReset' = 0
           /\ checkAge' = 0
           /\ deviations' = deviations + Deviation(TRUE, ShortGap, lag)
           /\ UNCHANGED <<total, sensorOffset, breathStopTimer, rawValue, dt, adjustedRaw,
                          adjustedValue, prevFiltered, smoothed, pressurePa, flowRate,
                          emitted, started, shown, ticks, idleTicks, loudUsed,
                          entryVol, entryPeak, entryTimer, entryBreathing, entryFlow,
                          trueDt>>
           /\ lastStep' = "ack"
           /\ lagIn' = lag
           /\ sinceBaseline' = elapsed - (wait + RESET_DELAY)

\* The acknowledgment within the bounds of the exploration
Acknowledge(wait, lag) ==
    /\ deviations + Deviation(TRUE, ShortGap, lag) <= MaxDeviations
    /\ AckBody(wait, lag)

Next ==
    \/ \E raw \in RawSet : \E quiet \in {Quiet(raw)} :
          \E gap \in GapSet, lag \in LagSet : Loop(raw, quiet, gap, lag)
    \/ \E wait \in AckWaitSet, lag \in LagSet : Acknowledge(wait, lag)

Spec == Init /\ [][Next]_vars

\* Only samples inside the deadzone are fed
NextQuiet ==
    \E raw \in QuietRawSet : \E quiet \in {Quiet(raw)} :
       \E gap \in GapSet, lag \in LagSet : QuietLoop(raw, quiet, gap, lag)

SpecQuiet == Init /\ [][NextQuiet]_vars

\* FlowModel applied to every filtered value of ProbeSet, negative ones included
InitFlow ==
    /\ filteredValue \in ProbeSet
    /\ pc = "probe"
    /\ total = 0
    /\ sensorOffset = 0
    /\ clock = MillisOf(0)
    /\ previousMillis = MillisOf(0)
    /\ lastDisplayTime = MillisOf(0)
    /\ breathStopTimer = MillisOf(0)
    /\ currentVol = 0
    /\ peakFlow = 0
    /\ previousFlow = 0
    /\ isBreathing = FALSE
    /\ rawValue = 0
    /\ dt = 0
    /\ adjustedRaw = 0
    /\ adjustedValue = 0
    /\ prevFiltered = 0
    /\ smoothed = 0
    /\ pressurePa = 0
    /\ flowRate = 0
    /\ emitted = 0
    /\ started = 0
    /\ shown = <<0, 0>>
    /\ sinceStart = 0
    /\ sinceCutoff = 0
    /\ sinceDrop = 0
    /\ sinceReset = 0
    /\ checkAge = 0
    /\ ticks = 0
    /\ idleTicks = 0
    /\ loudUsed = 0
    /\ deviations = 0
    /\ lastStep = "setup"
    /\ lagIn = NoLag
    /\ entryVol = 0
    /\ entryPeak = 0
    /\ entryTimer = MillisOf(0)
    /\ entryBreathing = FALSE
    /\ entryFlow = 0
    /\ sinceBaseline = 0
    /\ trueDt = 0

NextFlow == ProbeFlow

SpecFlow == InitFlow /\ [][NextFlow]_vars

----
\* Scripted runs: the sample of every loop() call is given by the call's number,
\* the timing of at most MaxJitter steps departs from ShortGap and NoLag.

ScenarioTicks == 80
MaxJitter == 1

InitScenario ==
    /\ total = 500 * OffsetSamples
    /\ Booted

ScenarioCall(raw) ==
    /\ ticks < ScenarioTicks
    /\ \E gap \in GapSet, lag \in LagSet :
          /\ (deviations - loudUsed) + Deviation(TRUE, gap, lag) <= MaxJitter
          /\ LoopBody(raw, gap, lag)

ScenarioAck ==
    \E wait \in AckWaitSet, lag \in LagSet :
       /\ (deviations - loudUsed) + Deviation(TRUE, ShortGap, lag) <= MaxJitter
       /\ AckBody(wait, lag)

\* One exhalation: the sample rises from 500 to 700, returns to 500 and stays
ScriptA(n) == IF n = 1 \/ n = 3 THEN 600 ELSE IF n = 2 THEN 700 ELSE 500

CallA == ScenarioCall(ScriptA(ticks))

NextA == CallA \/ ScenarioAck

SpecA == InitScenario /\ [][NextA]_vars

\* Two exhalations: one sample of 506 at the first call and one at call
\* SecondBreathAt, after the first breath was finalized and acknowledged
SecondBreathAt == 40

ScriptC(n) == IF n = 0 \/ n = SecondBreathAt THEN 506 ELSE 500

CallC == ScenarioCall(ScriptC(ticks))

NextC == CallC \/ ScenarioAck

SpecC == InitScenario /\ [][NextC]_vars

----
\* The first loop() call after setup(), for every sample analogRead can return

FirstCall ==
    /\ ticks = 0
    /\ \E raw \in 0 .. AdcMax : LoopBody(raw, ShortGap, NoLag)

NextOnset == FirstCall

\* sums after which a sample 5.4 counts above the mean of the calibration samples
\* passes line 86 (means 0.6 and 512.6) or is clamped (8.6, 500.6 and 511.6), and
\* a whole mean (500)
OnsetTotalSet == {25000, 30, 25630, 430, 25030, 25580}

InitOnset ==
    /\ total \in OnsetTotalSet
    /\ Booted

SpecOnset == InitOnset /\ [][NextOnset]_vars

----
\* A constant input: every loop() call reads the sample the first call read, one
\* of the samples from SteadyBelow counts below the mean of the calibration
\* samples to SteadyAbove counts above it

SteadyTicks == 12
SteadyBelow == 2
SteadyAbove == 8

SteadyRawSet ==
    {raw \in 0 .. AdcMax : /\ raw * OffsetSamples >= total - SteadyBelow * OffsetSamples
                           /\ raw * OffsetSamples <= total + SteadyAbove * OffsetSamples}

SteadyCall ==
    /\ ticks < SteadyTicks
    /\ \E raw \in (IF ticks = 0 THEN SteadyRawSet ELSE {rawValue}) :
          LoopBody(raw, ShortGap, NoLag)

NextSteady == SteadyCall

SpecSteady == InitOnset /\ [][NextSteady]_vars

----
\* The device has idled since setup() until lead ms before millis() passes 2^32
\* and starts again from 0; it has just finished a loop() call that drew the screen.

WrapLeadSet == {300, 1500}

InitWrap ==
    /\ \E lead \in WrapLeadSet :
          /\ clock = <<Half - 1, Half - lead>>
          /\ previousMillis = clock
          /\ lastDisplayTime = clock
    /\ total = 500 * OffsetSamples
    /\ sensorOffset = OffsetOf(total)
    /\ breathStopTimer = MillisOf(0)
    /\ filteredValue = 0
    /\ currentVol = 0
    /\ peakFlow = 0
    /\ previousFlow = 0
    /\ isBreathing = FALSE
    /\ pc = "loop"
    /\ rawValue = 0
    /\ dt = 0
    /\ adjustedRaw = 0
    /\ adjustedValue = 0
    /\ prevFiltered = 0
    /\ smoothed = 0
    /\ pressurePa = 0
    /\ flowRate = 0
    /\ emitted = 0
    /\ started = 0
    /\ shown = <<0, 0>>
    /\ sinceStart = 0
    /\ sinceCutoff = 0
    /\ sinceDrop = 0
    /\ sinceReset = 0
    /\ checkAge = 0
    /\ ticks = 0
    /\ idleTicks = 0
    /\ loudUsed = 0
    /\ deviations = 0
    /\ lastStep = "setup"
    /\ lagIn = NoLag
    /\ entryVol = 0
    /\ entryPeak = 0
    /\ entryTimer = MillisOf(0)
    /\ entryBreathing = FALSE
    /\ entryFlow = 0
    /\ sinceBaseline = 0
    /\ trueDt = 0

NextWrap ==
    \/ \E raw \in RawSet : \E quiet \in {Quiet(raw)} :
          \E gap \in GapSet, lag \in LagSet : Loop(raw, quiet, gap, lag)
    \/ \E wait \in AckWaitSet, lag \in LagSet : Acknowledge(wait, lag)

SpecWrap == InitWrap /\ [][NextWrap]_vars

----
\* Properties

\* C1 as stated: a breath is finalized only when no tick of the BREATH_TIMEOUT ms
\* before the transition had a flow above CUTOFF_THRESHOLD.
C1_QuietForTimeout ==
    pc = "results" => sinceCutoff >= BREATH_TIMEOUT

\* C1 as amended: a breath is finalized only on a tick whose flow is at or below
\* CUTOFF_THRESHOLD and only when no tick of the BREATH_TIMEOUT ms before the
\* transition had a flow above START_THRESHOLD.
C1_CalmForTimeout ==
    pc = "results" => FLe(flowRate, CUTOFF_THRESHOLD) /\ sinceStart >= BREATH_TIMEOUT

\* A breath finalized although its flow was above the cutoff less than
\* BREATH_TIMEOUT ms before.
C1_Witness ==
    pc = "results" /\ sinceStart >= BREATH_TIMEOUT /\ sinceCutoff < BREATH_TIMEOUT

\* C2 as stated: the breath ends no earlier than BREATH_TIMEOUT ms after the tick T
\* at which the flow dropped to CUTOFF_THRESHOLD or below.
C2_EndsTimeoutAfterDrop ==
    pc = "results" => sinceDrop >= BREATH_TIMEOUT

\* C2 as amended: with the flow at or below CUTOFF_THRESHOLD, the breath ends on
\* the first tick at which more than BREATH_TIMEOUT ms have passed since the stop
\* timer was last set (the latest tick above START_THRESHOLD), and not before.
C2_EndsTimeoutAfterReset ==
    /\ pc = "results" => FLe(flowRate, CUTOFF_THRESHOLD) /\ checkAge > BREATH_TIMEOUT
    /\ pc = "loop" /\ isBreathing /\ FLe(flowRate, CUTOFF_THRESHOLD)
           => checkAge <= BREATH_TIMEOUT

\* A breath that waited at least one tick below the cutoff and then ended, less
\* than BREATH_TIMEOUT ms after the drop.
C2_Witness ==
    pc = "results" /\ sinceDrop >= ShortGap /\ sinceDrop < BREATH_TIMEOUT

\* C3: isBreathing changes from false to true only on a tick whose flow is
\* strictly above START_THRESHOLD.
C3_StartOnlyAboveStart ==
    [][(~isBreathing /\ isBreathing') => FGt(flowRate', START_THRESHOLD)]_vars

\* A breath has just started.
C3_Witness ==
    isBreathing /\ started = 1 /\ prevFiltered = 0 /\ FGt(flowRate, START_THRESHOLD)

\* C4: every started breath is either still in progress or has had its summary
\* shown exactly once; no summary is shown without a breath of its own.
C4_OncePerBreath ==
    emitted + (IF isBreathing /\ pc = "loop" THEN 1 ELSE 0) = started

\* A breath was finalized and acknowledged.
C4_Witness ==
    pc = "loop" /\ ~isBreathing /\ emitted = 1 /\ started = 1

\* C5: the accumulated volume is never negative.
C5_VolumeNonNegative ==
    FGe(currentVol, 0)

\* Volume has been integrated over ticks of different length.
C5_Witness ==
    FGt(currentVol, 0) /\ dt = Seconds(LongGap) /\ isBreathing

\* C6: peakFlow never decreases, except that the end of a breath sets it to 0.
C6_PeakMonotone ==
    [][FGe(peakFlow', peakFlow) \/ (pc = "results" /\ pc' = "loop" /\ peakFlow' = 0)]_vars

\* The peak is kept while the flow of the same breath has fallen below it.
C6_Witness ==
    isBreathing /\ pc = "loop" /\ FGt(flowRate, START_THRESHOLD) /\ FGt(peakFlow, flowRate)

\* C7 as stated: a tick whose sample the deadzone forces to 0 computes a flow of 0.
C7_ClampedFlowZero ==
    ticks > 0 /\ FLt(adjustedRaw, DEADZONE_THRESHOLD) => flowRate = 0

\* C7 as amended: a tick whose sample the deadzone forces to 0 leaves the filter
\* no higher than it was, and computes a flow of exactly 0 when the filter was 0
\* before the tick.
C7_ClampedFlowDecays ==
    ticks > 0 /\ FLt(adjustedRaw, DEADZONE_THRESHOLD)
        => /\ adjustedValue = 0
           /\ FLe(smoothed, prevFiltered)
           /\ prevFiltered = 0 => flowRate = 0

\* A positive sample inside the deadzone was forced to 0 on a settled filter.
C7_Witness ==
    /\ ticks > 0
    /\ FGt(adjustedRaw, 0)
    /\ FLt(adjustedRaw, DEADZONE_THRESHOLD)
    /\ prevFiltered = 0
    /\ flowRate = 0

\* C8 as stated: under a constant input every sample with raw - offset <= 5.4 is
\* clamped to 0, the filter is 0 and the flow is 0.
C8_ClampedUpToThreshold ==
    ticks > 0 /\ FLe(adjustedRaw, DEADZONE_THRESHOLD)
        => adjustedValue = 0 /\ smoothed = 0 /\ flowRate = 0

\* C8 as amended: under a constant input every sample whose float difference
\* rawValue - sensorOffset is below the float 5.4 is clamped to 0, the filter is 0
\* and the flow is 0; a sample whose float difference is 5.4 or more is not
\* clamped and gives a flow above 0.
C8_ClampedBelowThreshold ==
    /\ ticks > 0 /\ FLt(adjustedRaw, DEADZONE_THRESHOLD)
           => adjustedValue = 0 /\ smoothed = 0 /\ flowRate = 0
    /\ ticks > 0 /\ FGe(adjustedRaw, DEADZONE_THRESHOLD)
           => adjustedValue = adjustedRaw /\ FGt(flowRate, 0)

\* A constant sample below the baseline was clamped on every call and left the
\* filter at 0.
C8_Witness ==
    /\ ticks = SteadyTicks
    /\ FLt(adjustedRaw, 0)
    /\ adjustedValue = 0
    /\ smoothed = prevFiltered
    /\ flowRate = 0

\* C9: the flow is never negative, and a pressure at or below 0 gives a flow of 0.
C9_FlowNonNegative ==
    pc = "probed" => FGe(flowRate, 0) /\ (FLe(pressurePa, 0) => flowRate = 0)

\* FlowModel was applied to a negative pressure.
C9_Witness ==
    pc = "probed" /\ FLt(pressurePa, 0) /\ flowRate = 0

\* C10: fed only samples inside the deadzone, the device stays Idle, shows no
\* summary and keeps the volume at 0.
C10_IdleStaysIdle ==
    ~isBreathing /\ pc = "loop" /\ started = 0 /\ emitted = 0 /\ currentVol = 0

\* MaxTicks calls were fed, the latest with raw = offset.
C10_Witness ==
    ticks = MaxTicks /\ adjustedRaw = 0 /\ ~isBreathing /\ currentVol = 0

\* C11: in the run of one exhalation (offset 500, the sample rises to 700, returns
\* to 500 and stays there) showResultsWindow is called exactly once, it prints a
\* peak flow and a volume above zero, which are the values held at that moment,
\* and from the acknowledgment on peakFlow and currentVol are zero.
C11_OneBreathReported ==
    /\ emitted <= 1
    /\ pc = "results" => /\ FGt(shown[1], 0)
                         /\ FGt(shown[2], 0)
                         /\ shown = <<peakFlow, currentVol>>
    /\ emitted = 1 /\ pc = "loop" => peakFlow = 0 /\ currentVol = 0 /\ ~isBreathing
    /\ ticks = ScenarioTicks => emitted = 1

C11_Witness ==
    /\ ticks = ScenarioTicks
    /\ pc = "loop"
    /\ emitted = 1
    /\ FGt(shown[1], START_THRESHOLD)
    /\ FGt(shown[2], 0)
    /\ peakFlow = 0
    /\ currentVol = 0

\* C12: in the run of two exhalations separated by an idle stretch
\* showResultsWindow is called exactly twice; whenever the device is Idle
\* peakFlow and currentVol are zero, so a breath starts from zero, and the peak
\* printed for either breath is the flow of its own single sample.
C12_TwoBreathsApart ==
    /\ emitted <= 2
    /\ ticks = ScenarioTicks => emitted = 2
    /\ pc = "loop" /\ ~isBreathing => peakFlow = 0 /\ currentVol = 0
    /\ lastStep = "tick" /\ ~entryBreathing /\ isBreathing => entryPeak = 0 /\ entryVol = 0
    /\ pc = "results" =>
          shown[1] = FlowRate(Pressure(Voltage(Smooth(0, Deadzone(Adjusted(506, sensorOffset))))))

C12_Witness ==
    /\ pc = "results"
    /\ emitted = 2
    /\ started = 2
    /\ FGt(shown[1], START_THRESHOLD)
    /\ FGt(shown[2], 0)

\* C13: when showResultsWindow has returned, currentVol, previousFlow and
\* filteredValue are zero and previousMillis holds the millis() read after the
\* button was pressed, so the dt of the next loop() call is the time since that
\* read: it holds none of the wait for the button nor of the delay of line 207.
C13_FreshAfterAck ==
    /\ lastStep = "ack" => /\ currentVol = 0
                           /\ previousFlow = 0
                           /\ filteredValue = 0
                           /\ ~isBreathing
                           /\ MillisDiff(clock, previousMillis) = sinceBaseline
                           /\ sinceBaseline < RESET_DELAY
    /\ lastStep = "tick" /\ emitted >= 1 => dt = Seconds(trueDt) /\ FLt(dt, Seconds(RESET_DELAY))

C13_Witness ==
    /\ lastStep = "tick"
    /\ emitted = 1
    /\ started = 2
    /\ prevFiltered = 0
    /\ entryVol = 0
    /\ entryFlow = 0
    /\ FGt(currentVol, 0)
    /\ dt = Seconds(ShortGap)

\* C14: a loop() call adds to currentVol only when the device is Breathing and
\* the flow is above CUTOFF_THRESHOLD, and then adds the trapezoid of line 110-116;
\* on every other call currentVol is left as it was; previousFlow is set to the
\* flow of the call in every case.
C14_IntegratesOnlyInBreath ==
    lastStep = "tick" =>
        /\ previousFlow = flowRate
        /\ ~isBreathing \/ FLe(flowRate, CUTOFF_THRESHOLD) => currentVol = entryVol
        /\ isBreathing /\ FGt(flowRate, CUTOFF_THRESHOLD) =>
              currentVol = FAdd(entryVol, InstantVolume(flowRate, entryFlow, dt))

C14_Witness ==
    /\ lastStep = "tick"
    /\ isBreathing
    /\ FLe(flowRate, CUTOFF_THRESHOLD)
    /\ FGt(flowRate, 0)
    /\ FGt(entryVol, 0)
    /\ currentVol = entryVol
    /\ FGt(entryFlow, CUTOFF_THRESHOLD)
    /\ previousFlow = flowRate

\* C15: a loop() call writes breathStopTimer only when its flow is above
\* START_THRESHOLD; a call while Breathing with the flow above CUTOFF_THRESHOLD and
\* at most START_THRESHOLD leaves the device Breathing and breathStopTimer and
\* peakFlow as they were; a call with the flow at or below CUTOFF_THRESHOLD leaves
\* breathStopTimer as it was.
C15_TimerOnlyAboveStart ==
    lastStep = "tick" =>
        /\ breathStopTimer # entryTimer => FGt(flowRate, START_THRESHOLD)
        /\ FLe(flowRate, CUTOFF_THRESHOLD) => breathStopTimer = entryTimer
        /\ entryBreathing /\ FGt(flowRate, CUTOFF_THRESHOLD) /\ FLe(flowRate, START_THRESHOLD) =>
              /\ isBreathing
              /\ pc = "loop"
              /\ breathStopTimer = entryTimer
              /\ peakFlow = entryPeak

C15_Witness ==
    /\ lastStep = "tick"
    /\ entryBreathing
    /\ FGt(flowRate, CUTOFF_THRESHOLD)
    /\ FLe(flowRate, START_THRESHOLD)
    /\ isBreathing
    /\ breathStopTimer = entryTimer
    /\ MillisDiff(previousMillis, breathStopTimer) > LongGap

\* C16 as stated: on a loop() call while Breathing with the flow at or below
\* CUTOFF_THRESHOLD and at most BREATH_TIMEOUT ms on the stop timer, the device
\* stays Breathing and peakFlow, currentVol, breathStopTimer, previousFlow and
\* filteredValue are left as they were; every finalization comes more than
\* BREATH_TIMEOUT ms after the latest call with the flow above START_THRESHOLD.
C16_GraceChangesNothing ==
    /\ lastStep = "tick" /\ entryBreathing /\ FLe(flowRate, CUTOFF_THRESHOLD)
          /\ checkAge <= BREATH_TIMEOUT =>
            /\ isBreathing
            /\ pc = "loop"
            /\ peakFlow = entryPeak
            /\ currentVol = entryVol
            /\ breathStopTimer = entryTimer
            /\ previousFlow = entryFlow
            /\ filteredValue = prevFiltered
    /\ pc = "results" => sinceStart > BREATH_TIMEOUT

\* C16 as amended: on such a call the device stays Breathing and peakFlow,
\* currentVol and breathStopTimer are left as they were, while filteredValue is
\* smoothed and previousFlow set to the flow of the call as on every call; every
\* finalization comes more than BREATH_TIMEOUT ms after the latest call with the
\* flow above START_THRESHOLD.
C16_GraceKeepsBreath ==
    /\ lastStep = "tick" /\ entryBreathing /\ FLe(flowRate, CUTOFF_THRESHOLD)
          /\ checkAge <= BREATH_TIMEOUT =>
            /\ isBreathing
            /\ pc = "loop"
            /\ peakFlow = entryPeak
            /\ currentVol = entryVol
            /\ breathStopTimer = entryTimer
            /\ previousFlow = flowRate
            /\ filteredValue = Smooth(prevFiltered, adjustedValue)
    /\ pc = "results" => sinceStart > BREATH_TIMEOUT /\ checkAge > BREATH_TIMEOUT

C16_Witness ==
    /\ lastStep = "tick"
    /\ entryBreathing
    /\ FLe(flowRate, CUTOFF_THRESHOLD)
    /\ FGt(flowRate, 0)
    /\ checkAge = BREATH_TIMEOUT
    /\ isBreathing
    /\ pc = "loop"
    /\ previousFlow # entryFlow

\* C17 as stated: every use of the time in a loop() call takes the value read at
\* line 75: the stop timer is set to it and no later value of the clock is seen
\* by the call.
C17_SingleTimestamp ==
    lastStep = "tick" =>
        /\ dt = Seconds(trueDt)
        /\ FGt(flowRate, START_THRESHOLD) => breathStopTimer = previousMillis
        /\ clock = previousMillis

\* C17 as amended: dt is the difference of the one read of line 75 to the previous
\* baseline, whatever the period; the stop timer (line 105), the timeout check
\* (line 124) and the display check and stamp (lines 137, 139) each read millis()
\* again and get the value of line 75 plus the time the call took to reach them.
C17_LaterReads ==
    lastStep = "tick" =>
        /\ dt = Seconds(trueDt)
        /\ FGt(flowRate, START_THRESHOLD) =>
              MillisDiff(breathStopTimer, previousMillis) = lagIn[1]
        /\ pc = "results" => /\ MillisDiff(clock, previousMillis) = lagIn[1] + lagIn[2]
                             /\ TimedOut(clock, breathStopTimer)
        /\ pc = "loop" /\ lastDisplayTime = clock =>
              MillisDiff(lastDisplayTime, previousMillis)
                  = lagIn[1] + lagIn[2] + lagIn[3] + lagIn[4]
        /\ pc = "loop" /\ lastDisplayTime # clock =>
              MillisDiff(clock, previousMillis) = lagIn[1] + lagIn[2] + lagIn[3]

C17_Witness ==
    /\ lastStep = "tick"
    /\ lagIn # NoLag
    /\ FGt(flowRate, START_THRESHOLD)
    /\ breathStopTimer # previousMillis
    /\ lastDisplayTime = clock
    /\ lastDisplayTime # breathStopTimer
    /\ dt = Seconds(trueDt)

\* C18: while showResultsWindow waits for the button the printed values are the
\* ones the device holds, and the only step is the return of showResultsWindow:
\* no loop() call runs and no sample is read before it; the next call comes after.
C18_NoSamplingWhileShown ==
    [][pc = "results" =>
          /\ shown = <<peakFlow, currentVol>>
          /\ isBreathing
          /\ filteredValue = smoothed
          /\ previousFlow = flowRate
          /\ lastStep' = "ack"
          /\ pc' = "loop"
          /\ ticks' = ticks
          /\ rawValue' = rawValue
          /\ breathStopTimer' = breathStopTimer
          /\ emitted' = emitted]_vars

C18_Witness ==
    /\ lastStep = "ack"
    /\ pc = "loop"
    /\ emitted = 1
    /\ FGt(shown[2], 0)
    /\ MillisDiff(clock, breathStopTimer) > BREATH_TIMEOUT + AckWaitMax
    /\ ticks < MaxTicks

\* C19: on a loop() call from the settled Idle state (filteredValue 0) a sample
\* that escapes the deadzone (rawValue - sensorOffset >= 5.4) gives a flow above
\* START_THRESHOLD on that call and starts a breath; a sample inside the deadzone
\* gives flow 0; so no sample gives a flow above 0 and at most START_THRESHOLD.
C19_LoudSampleStartsBreath ==
    lastStep = "tick" /\ prevFiltered = 0 /\ ~entryBreathing =>
        /\ FGe(adjustedRaw, DEADZONE_THRESHOLD) => /\ FGt(flowRate, START_THRESHOLD)
                                                /\ isBreathing
                                                /\ peakFlow = flowRate
        /\ FLt(adjustedRaw, DEADZONE_THRESHOLD) => flowRate = 0 /\ ~isBreathing

C19_Witness ==
    /\ lastStep = "tick"
    /\ prevFiltered = 0
    /\ adjustedRaw = DEADZONE_THRESHOLD
    /\ FGt(flowRate, START_THRESHOLD)
    /\ isBreathing

\* C20: when millis() passes 2^32 between two loop() calls, or between the write
\* of breathStopTimer and the check of line 124, the differences the sketch takes
\* are the true elapsed times: dt is the true time since the previous baseline
\* and is not negative, a breath is finalized only with more than BREATH_TIMEOUT
\* true ms on the stop timer, and no call below the cutoff with more than that
\* on the stop timer leaves the breath open.
C20_WrapKeepsElapsed ==
    /\ lastStep = "tick" => dt = Seconds(trueDt) /\ FGe(dt, 0)
    /\ isBreathing /\ pc = "loop" => MillisDiff(clock, breathStopTimer) = sinceReset
    /\ pc = "results" => /\ MillisDiff(clock, breathStopTimer) = checkAge
                         /\ checkAge > BREATH_TIMEOUT
    /\ lastStep = "tick" /\ pc = "loop" /\ isBreathing /\ FLe(flowRate, CUTOFF_THRESHOLD) =>
          checkAge <= BREATH_TIMEOUT

C20_Witness ==
    /\ pc = "results"
    /\ breathStopTimer[1] = Half - 1
    /\ clock[1] = 0
    /\ checkAge > BREATH_TIMEOUT
    /\ dt = Seconds(trueDt)
    /\ FGt(dt, 0)

====
